---- MODULE Spec2Model ----
(***************************************************************************)
(* Streaming gateway of the Reelnn backend (src/web/main.py).              *)
(*                                                                         *)
(*   SpecAuth  stream_handler: token validation, authorization of the      *)
(*             requested id, resolution of the content reference.          *)
(*   SpecPlan  media_streamer: range test, chunk plan, trimmed stream.     *)
(*   SpecStream one request from the token to the last chunk: connection   *)
(*             selection, file properties, identity check, response.       *)
(*   SpecShow  getshow_details over a catalog of shows.                    *)
(*   SpecPool  two requests, the ByteStreamer cache and clean_cache.       *)
(*   SpecProcess the web process from its start, with the cleanup task.    *)
(*   SpecIngest the message queue and its workers                          *)
(*             (src/plugins/video_message.py, src/plugins/batch.py).       *)
(*   SpecIngestLive the same with the scheduling of the event loop.        *)
(*   SpecSearch concurrent calls of get_cached_search_results              *)
(*             (src/utils/api/search_results.py).                          *)
(*   SpecHash  the stored bundle hash: ingestion, migration                *)
(*             (src/migrate_bundles.py) and the stream's identity check.   *)
(***************************************************************************)
EXTENDS Integers, Sequences, FiniteSets, TLC

VARIABLES now, token, req,
          file_size, range_header, plan, sent,
          work_loads, multi_clients, class_cache, session,
          shows, show_reply,
          cleaner,
          message_queue, unfinished, worker_tasks, cache_update_scheduled,
          updater, applied, inbox, refresh,
          lru_cache, cache_order, calls,
          collection, upstream, migration, checked

authVars == <<now, token, req>>
planVars == <<file_size, range_header, plan, sent>>
streamVars == <<work_loads, multi_clients, class_cache, session>>
showVars == <<shows, show_reply>>
vars == <<now, token, req, file_size, range_header, plan, sent,
          work_loads, multi_clients, class_cache, session, shows, show_reply,
          cleaner, message_queue, unfinished, worker_tasks,
          cache_update_scheduled, updater, applied, inbox, refresh,
          lru_cache, cache_order, calls, collection, upstream, migration, checked>>

ingestVars == <<message_queue, unfinished, worker_tasks, cache_update_scheduled,
                updater, applied, inbox, refresh>>
searchVars == <<lru_cache, cache_order, calls>>
hashVars == <<collection, upstream, migration, checked>>

(* ---- bounds ---------------------------------------------------------- *)

\* Clock values are 0..MaxTime; a token's expiry is one of them.
MaxTime == 1

\* Small files have 1..MaxSize bytes.
MaxSize == 22

\* Show ids are 1..MaxShow.
MaxShow == 3

\* The clock of the handle cache runs over MaxSweeps sweep periods.
MaxSweeps == 6

\* The load counters start in 0..MaxLoad.
MaxLoad == 1

(* ---- optional values --------------------------------------------------- *)

\* A value that may be absent (None, a missing key): {} or {v}.
Opt(S) == {{}} \cup {{v} : v \in S}

(***************************************************************************)
(* stream_handler                                                          *)
(***************************************************************************)

\* Path ids a client may request: two catalog content ids, a file id and a
\* short hash.
PathIds == {"C1", "C2", "F1", "abc123"}

\* A media selection: media type, quality index, season, episode.
Selection(mt, qi, sn, en) ==
    [media_type |-> mt, quality_index |-> qi, season_number |-> sn, episode_number |-> en]

MovieSel == Selection({"movie"}, {0}, {}, {})
ShowSel  == Selection({"show"}, {1}, {1}, {2})
NoSel    == Selection({}, {}, {}, {})

\* Query parameters of a request; all are optional (Query(None)).
QueryParams == {MovieSel, ShowSel, NoSel}

\* Payloads of the signed token.  id and fileId are "" when the key is missing
\* (token_data.get(key, "")); expiry is {} when the token has no "expiry" key.
Payloads ==
    [id : {"", "C1"}, fileId : {"", "F1", "C1", "abc123"}, expiry : Opt(0..MaxTime),
     mediaType : {{"movie"}, {"show"}}, qualityIndex : Opt({1}),
     seasonNumber : Opt({1}), episodeNumber : Opt({2})]

\* The selections a token can carry: a movie, an episode of a show.
TokenPayloads ==
    {p \in Payloads :
        \/ p.mediaType = {"movie"} /\ p.qualityIndex = {} /\ p.seasonNumber = {} /\ p.episodeNumber = {}
        \/ p.mediaType = {"show"} /\ p.qualityIndex = {1} /\ p.seasonNumber = {1} /\ p.episodeNumber = {2}}

\* What a client can present: nothing, or a token whose signature verifies or not.
NoToken == [present |-> FALSE]
Tokens == {NoToken} \cup [present : {TRUE}, signed : BOOLEAN, payload : TokenPayloads]

\* The requests in flight: two, so that two uses of one token can be compared.
Reqs == {"r1", "r2"}

\* verify_stream_token: the decoded payload, or the 401 it raises.  jwt.decode
\* raises PyJWTError on a bad signature; the "expiry" test only runs when the
\* payload has that key.
Accept(p) == [ok |-> TRUE, status |-> 0, detail |-> "", decoded |-> p]
Reject(st, d) == [ok |-> FALSE, status |-> st, detail |-> d, decoded |-> [id |-> ""]]

verify_without_expiry(tok, t) ==
    IF ~tok.signed THEN Reject(401, "Invalid token") ELSE Accept(tok.payload)

verify_stream_token(tok, t) ==
    IF ~tok.signed
    THEN Reject(401, "Invalid token")
    ELSE IF tok.payload.expiry # {} /\ \E e \in tok.payload.expiry : e < t
         THEN Reject(401, "Token has expired")
         ELSE Accept(tok.payload)

\* Lines 243-250: "bundle" when the token's fileId is non-empty and equals the
\* path id, else "content" when the token's id equals it, else "mismatch".
authorize_any_id(token_id, token_file_id, id) ==
    IF token_file_id # "" /\ token_file_id = id THEN "bundle" ELSE "content"

authorization(token_id, token_file_id, id) ==
    IF token_file_id # "" /\ token_file_id = id
    THEN "bundle"
    ELSE IF token_id # id THEN "mismatch" ELSE "content"

\* Lines 237-240: the token's selection; qualityIndex defaults to 0.
token_selection(p) ==
    Selection(p.mediaType,
              IF p.qualityIndex = {} THEN {0} ELSE p.qualityIndex,
              p.seasonNumber, p.episodeNumber)

\* Lines 252-256: a non-bundle request takes media type, quality index, season
\* and episode from the token; a bundle request keeps the query parameters.
selection_from_query(is_bundle, p, q) == q

effective_selection(is_bundle, p, q) ==
    IF ~is_bundle THEN token_selection(p) ELSE q

\* The bundles collection: one legacy record (no file_hash) and one hashed one.
BundleCollection ==
    {[file_id |-> "F1", file_hash |-> {}, chat_id |-> 1, msg_id |-> 11],
     [file_id |-> "F2", file_hash |-> {"abc123"}, chat_id |-> 1, msg_id |-> 12]}

\* collection.find_one({key: id}): the matching records (at most one here).
find_by_hash(id) == {b \in BundleCollection : b.file_hash = {id}}
find_by_file_id(id) == {b \in BundleCollection : b.file_id = id}

\* Lines 269-273: hash first, file id only when the hash finds nothing.
bundle_lookups(id) ==
    IF find_by_hash(id) # {} THEN <<"file_hash">> ELSE <<"file_hash", "file_id">>

bundle_found_by_hash_only(id) == find_by_hash(id)

bundle_found(id) ==
    IF find_by_hash(id) # {} THEN find_by_hash(id) ELSE find_by_file_id(id)

\* get_video_details(id, media_type, quality_index, season, episode): the
\* catalog file those five arguments name.
get_video_details(id, sel) == <<id, sel>>

NoFile == <<"", NoSel>>

IdleReq ==
    [pc |-> "idle", id |-> "", query |-> NoSel, at |-> 0, status |-> 0,
     detail |-> "", is_bundle |-> FALSE, selection |-> NoSel,
     lookups |-> <<>>, file |-> NoFile, streamer |-> FALSE]

\* The handler's outcome when it raises HTTPException(st, d) before any lookup.
Raised(r0, st, d) == [r0 EXCEPT !.pc = "done", !.status = st, !.detail = d]

\* stream_handler, lines 229-298, for a request of path id `id` with query
\* parameters q arriving at time `now`: everything up to the first suspension
\* (the catalog lookup) or, for a bundle, up to the call of media_streamer.
stream_handler(r, id, q) ==
    /\ req[r].pc = "idle"
    /\ LET r0 == [IdleReq EXCEPT !.id = id, !.query = q, !.at = now]
           v == verify_stream_token(token, now)
       IN  IF ~token.present
           THEN req' = [req EXCEPT ![r] = Raised(r0, 401, "Stream token required")]
           ELSE IF ~v.ok
           THEN req' = [req EXCEPT ![r] = Raised(r0, v.status, v.detail)]
           ELSE LET a == authorization(v.decoded.id, v.decoded.fileId, id)
                    sel == effective_selection(a = "bundle", v.decoded, q)
                    r1 == [r0 EXCEPT !.is_bundle = (a = "bundle"), !.selection = sel]
                IN  IF a = "mismatch"
                    THEN req' = [req EXCEPT ![r] = Raised(r0, 401, "Token ID mismatch")]
                    ELSE IF a = "bundle"
                    THEN IF bundle_found(id) = {}
                         THEN req' = [req EXCEPT ![r] =
                                 [Raised(r1, 404, "Bundle file not found")
                                    EXCEPT !.lookups = bundle_lookups(id)]]
                         ELSE req' = [req EXCEPT ![r] =
                                 [r1 EXCEPT !.pc = "streamer", !.streamer = TRUE,
                                            !.lookups = bundle_lookups(id)]]
                    ELSE req' = [req EXCEPT ![r] =
                                 [r1 EXCEPT !.pc = "catalog", !.lookups = <<"catalog">>]]
    /\ UNCHANGED <<now, token>>

\* Lines 296-304: the catalog lookup returns and media_streamer is called.
catalog_return(r) ==
    /\ req[r].pc = "catalog"
    /\ req' = [req EXCEPT ![r] =
                 [req[r] EXCEPT !.pc = "streamer", !.streamer = TRUE,
                                !.file = get_video_details(req[r].id, req[r].selection)]]
    /\ UNCHANGED <<now, token>>

\* datetime.now() advances.
Tick ==
    /\ now < MaxTime
    /\ now' = now + 1
    /\ UNCHANGED <<token, req>>

(***************************************************************************)
(* media_streamer: range test, chunk plan, response, trimmed stream        *)
(***************************************************************************)

\* The cap of the chunk size, 1024 * 1024.
FixedCap == 1048576

Min(a, b) == IF a <= b THEN a ELSE b
Max(a, b) == IF a >= b THEN a ELSE b

\* math.floor(a / b) and math.ceil(a / b) for b > 0.  The operands stay far
\* below 2^53 and a non-integral quotient is at least 1/b away from an
\* integer, so the float division of the source rounds to the same integers.
FloorDiv(a, b) == a \div b
CeilDiv(a, b) == -((-a) \div b)

\* Line 371.
ChunkSize(size) == Min(FixedCap, size \div 10)

\* File sizes: every small size, and sizes around ten times the cap, where
\* the chunk size reaches the cap.
FileSizes ==
    (1..MaxSize)
    \cup {10000000, 10 * FixedCap - 3, 10 * FixedCap, 10 * FixedCap + 1, 12 * FixedCap + 7}

\* Byte positions a Range header names for a file: all of them for a small
\* file, those around the chunk boundaries and the end for a large one.
Points(size) ==
    IF size <= MaxSize
    THEN 0..(size + 1)
    ELSE LET cs == ChunkSize(size)
         IN  {0, 1, cs - 1, cs, cs + 1, cs + (cs \div 2), 2 * cs - 1, 2 * cs,
              2 * cs + 1, 2 * cs + (cs \div 2), size - 2, size - 1, size, size + 1}

\* request.headers.get("Range", 0): absent, "bytes=a-b" or "bytes=a-".
NoRange == [kind |-> "none", a |-> 0, b |-> 0]
RangeHeaders(size) ==
    {NoRange}
    \cup {[kind |-> "closed", a |-> a, b |-> b] : a \in Points(size), b \in Points(size)}
    \cup {[kind |-> "open", a |-> a, b |-> 0] : a \in Points(size)}

\* Lines 356-362: from_bytes and until_bytes as parsed.
ParsedFrom(hdr, size) == IF hdr.kind = "none" THEN 0 ELSE hdr.a
ParsedUntil(hdr, size) == IF hdr.kind = "closed" THEN hdr.b ELSE size - 1

\* Line 364.
RangeNotSatisfiable(from, until, size) ==
    (until > size) \/ (from < 0) \/ (until < from)

\* Line 378.
PartCountRoundedDown(until, offset, cs) == FloorDiv(until, cs) - FloorDiv(offset, cs)

PartCount(until, offset, cs) == CeilDiv(until, cs) - FloorDiv(offset, cs)

\* The response: status, Content-Range (unsatisfied = "bytes */total") and
\* Content-Length; and the arguments of yield_file.
NoPlan ==
    [pc |-> "idle", status_code |-> 0, from_bytes |-> 0, until_bytes |-> 0,
     chunk_size |-> 0, offset |-> 0, first_part_cut |-> 0, last_part_cut |-> 0,
     req_length |-> 0, part_count |-> 0,
     content_range |-> [unsatisfied |-> FALSE, from |-> 0, until |-> 0, total |-> 0]]

\* Lines 364-369.
Response416(size) ==
    [NoPlan EXCEPT !.pc = "done", !.status_code = 416,
                   !.content_range = [unsatisfied |-> TRUE, from |-> 0, until |-> 0, total |-> size]]

\* Line 374 divides by chunk_size: ZeroDivisionError when it is 0, which
\* stream_handler (lines 313-315) turns into a 500.
Response500(from, until) ==
    [NoPlan EXCEPT !.pc = "done", !.status_code = 500,
                   !.from_bytes = from, !.until_bytes = until]

\* Line 398: 206 if range_header else 200.
StatusAlwaysPartial(hdr) == 206

StatusCode(hdr) == IF hdr.kind # "none" THEN 206 ELSE 200

\* Lines 371-410.
Planned(hdr, from, until0, size) ==
    LET cs == ChunkSize(size)
        until == Min(until0, size - 1)
        offset == from - (from % cs)
    IN  [pc |-> "streaming",
         status_code |-> StatusCode(hdr),
         from_bytes |-> from, until_bytes |-> until, chunk_size |-> cs,
         offset |-> offset,
         first_part_cut |-> from - offset,
         last_part_cut |-> (until % cs) + 1,
         req_length |-> until - from + 1,
         part_count |-> PartCount(until, offset, cs),
         content_range |-> [unsatisfied |-> FALSE, from |-> from, until |-> until, total |-> size]]

\* media_streamer from line 355 on, for a file of `size` bytes.
Respond(hdr, size) ==
    LET from == ParsedFrom(hdr, size)
        until == ParsedUntil(hdr, size)
    IN  IF RangeNotSatisfiable(from, until, size)
        THEN Response416(size)
        ELSE IF ChunkSize(size) = 0
        THEN Response500(from, until)
        ELSE Planned(hdr, from, until, size)

media_streamer ==
    /\ plan.pc = "idle"
    /\ plan' = Respond(range_header, file_size)
    /\ sent' = <<>>
    /\ UNCHANGED <<file_size, range_header>>

\* chunk[a:b] of the file bytes lo..hi-1, as a half-open interval.
Slice(lo, hi, a, b) ==
    LET l == Min(lo + a, hi)
        h == Min(lo + b, hi)
    IN  <<l, Max(l, h)>>

\* yield_file: the k-th of part_count chunks of chunk_size bytes read from
\* offset (the last chunk of the file is shorter), trimmed: the first from
\* first_part_cut, the last to last_part_cut, the others whole.
RawChunk(p, k, size) ==
    <<Min(p.offset + (k - 1) * p.chunk_size, size), Min(p.offset + k * p.chunk_size, size)>>

TrimmedChunk(p, k, size) ==
    LET c == RawChunk(p, k, size)
    IN  IF p.part_count = 1 THEN Slice(c[1], c[2], p.first_part_cut, p.last_part_cut)
        ELSE IF k = 1 THEN Slice(c[1], c[2], p.first_part_cut, c[2] - c[1])
        ELSE IF k = p.part_count THEN Slice(c[1], c[2], 0, p.last_part_cut)
        ELSE c

yield_chunk ==
    /\ plan.pc = "streaming"
    /\ Len(sent) < plan.part_count
    /\ sent' = Append(sent, TrimmedChunk(plan, Len(sent) + 1, file_size))
    /\ UNCHANGED <<file_size, range_header, plan>>

stream_end ==
    /\ plan.pc = "streaming"
    /\ Len(sent) >= plan.part_count
    /\ plan' = [plan EXCEPT !.pc = "done"]
    /\ UNCHANGED <<file_size, range_header, sent>>

(***************************************************************************)
(* media_streamer: connection selection, file properties, identity check   *)
(***************************************************************************)

\* The texts compared character by character, as sequences of characters.
Chars(s) ==
    CASE s = "abc123" -> <<"a", "b", "c", "1", "2", "3">>
      [] s = "abc123xyz999" -> <<"a", "b", "c", "1", "2", "3", "x", "y", "z", "9", "9", "9">>
      [] s = "xyz999abc123" -> <<"x", "y", "z", "9", "9", "9", "a", "b", "c", "1", "2", "3">>
      [] s = "xyz999" -> <<"x", "y", "z", "9", "9", "9">>
      [] s = "abc" -> <<"a", "b", "c">>
      [] OTHER -> <<>>

\* file_id.unique_id of the fetched file.
UniqueIds == {"abc123xyz999", "xyz999abc123"}

\* unique_id[:6]
first_six(u) == SubSeq(Chars(u), 1, Min(6, Len(Chars(u))))

\* Lines 346-351: the check is skipped when secure_hash is None or empty, and
\* passes when the first six characters of the unique id equal the hash.
identity_unchecked(secure_hash, unique_id) == TRUE

identity_verified(secure_hash, unique_id) ==
    \A h \in secure_hash : h # "" => first_six(unique_id) = Chars(h)

\* Lines 284-291 and 302: the hash handed to media_streamer, None for a bundle
\* stored without one; the catalog details carry the hash stored at indexing.
details_hash(file) == {"abc123"}

secure_hash_of(r0) ==
    IF r0.is_bundle
    THEN (CHOOSE b \in bundle_found(r0.id) : TRUE).file_hash
    ELSE details_hash(r0.file)

\* state.work_loads, a dict in insertion order: <<index, load>> pairs.
WorkLoads ==
    {<<>>, << <<0, 0>> >>, << <<0, 2>>, <<1, 1>> >>, << <<0, 1>>, <<1, 1>> >>}

\* state.multi_clients: the indices that have a client.
ClientRegistries == {{0, 1}, {0}}

\* Line 324: min(work_loads, key=work_loads.get), the first key of least load.
FirstIndex(wl) == wl[1][1]

MinLoadIndex(wl) ==
    LET i == CHOOSE i \in 1..Len(wl) :
                 /\ \A j \in 1..Len(wl) : wl[j][2] >= wl[i][2]
                 /\ \A j \in 1..(i - 1) : wl[j][2] > wl[i][2]
    IN  wl[i][1]

\* mimetypes.guess_type(file_name)[0]: None for an unknown extension.
FileNames == {"movie.mp4", "movie.zzz"}
guess_type(file_name) == IF file_name = "movie.mp4" THEN {"video/mp4"} ELSE {}

\* file_id.mime_type and file_id.file_name may be None.
MimeTypes == Opt({"video/x-matroska"})
FileProperties == [unique_id : UniqueIds, mime_type : MimeTypes, file_name : Opt(FileNames)]

\* Lines 384-401: the Content-Type header, f"{mime_type}".
ContentType(mime_type, file_name) ==
    IF mime_type # {} THEN CHOOSE m \in mime_type : TRUE
    ELSE IF file_name # {}
    THEN LET g == guess_type(CHOOSE n \in file_name : TRUE)
         IN  IF g # {} THEN CHOOSE m \in g : TRUE ELSE "None"
    ELSE "application/octet-stream"

IdleSession ==
    [pc |-> "idle", index |-> -1, constructed |-> FALSE, handle |-> "", body |-> "",
     secure_hash |-> {},
     upstream |-> "", unique_id |-> "", mime_type |-> {}, file_name |-> {},
     status |-> 0, detail |-> "", content_type |-> ""]

\* An exception that leaves media_streamer: HTTPException(st, d) as raised, any
\* other through lines 313-315 of stream_handler as a 500.
Continued(s0, st, d) == [s0 EXCEPT !.pc = "fetching", !.status = st, !.detail = d]

Failed(s0, st, d) == [s0 EXCEPT !.pc = "done", !.status = st, !.detail = d]

\* Lines 306-310: get_video_details raises TimeoutError.
catalog_timeout(r) ==
    /\ req[r].pc = "catalog"
    /\ req' = [req EXCEPT ![r] =
                 Raised(req[r], 503, "Streaming service temporarily unavailable. Please try again.")]
    /\ session' = [session EXCEPT ![r] = [@ EXCEPT !.upstream = "TimeoutError"]]
    /\ UNCHANGED <<now, token, work_loads, multi_clients, class_cache>>

\* Lines 333-337: the cached ByteStreamer of the client, or one constructed by
\* request r; it is named after the request that constructed it.
acquire_fresh(cache, index, r) == [object |-> r, constructed |-> TRUE]

acquire(cache, index, r) ==
    IF index \in DOMAIN cache
    THEN [object |-> cache[index].object, constructed |-> FALSE]
    ELSE [object |-> r, constructed |-> TRUE]

\* Line 379: the body is tg_connect.yield_file(...), tg_connect being the local
\* variable bound at lines 333-337.
handle_from_cache(s0, cache) ==
    IF s0.index \in DOMAIN cache THEN cache[s0.index].object ELSE ""

handle_in_use(s0, cache) == s0.handle

\* Lines 319-339: the connection is selected, the ByteStreamer is taken from
\* class_cache or constructed and cached, and get_file_properties is awaited.
select_client(r) ==
    /\ req[r].pc = "streamer"
    /\ session[r].pc = "idle"
    /\ LET s0 == [session[r] EXCEPT !.secure_hash = secure_hash_of(req[r])]
       IN  IF work_loads = <<>>
           THEN /\ session' = [session EXCEPT ![r] =
                       Failed(s0, 500, "Error streaming content: min() arg is an empty sequence")]
                /\ UNCHANGED class_cache
           ELSE LET index == MinLoadIndex(work_loads)
                IN  IF index \notin multi_clients
                    THEN /\ session' = [session EXCEPT ![r] =
                                Failed([s0 EXCEPT !.index = index], 500, "Error streaming content: KeyError")]
                         /\ UNCHANGED class_cache
                    ELSE LET tg_connect == acquire(class_cache, index, r)
                         IN  /\ session' = [session EXCEPT ![r] =
                                    [s0 EXCEPT !.pc = "fetching", !.index = index,
                                               !.constructed = tg_connect.constructed,
                                               !.handle = tg_connect.object]]
                             /\ class_cache' =
                                    IF ~tg_connect.constructed THEN class_cache
                                    ELSE [c \in DOMAIN class_cache \cup {index} |->
                                            IF c = index
                                            THEN [object |-> tg_connect.object, timestamp |-> now]
                                            ELSE class_cache[c]]
    /\ UNCHANGED <<work_loads, multi_clients>>

\* Lines 341-343: get_file_properties raises err, a TimeoutError or any other
\* exception; both are caught by `except Exception`.
file_properties_error(r, err) ==
    /\ session[r].pc = "fetching"
    /\ session' = [session EXCEPT ![r] =
                     Failed([@ EXCEPT !.upstream = err], 500, "Error retrieving file")]
    /\ UNCHANGED <<work_loads, multi_clients, class_cache>>

\* Lines 346-351: get_file_properties returned p and the identity check fails:
\* InvalidHash, a 500 through lines 313-315.
invalid_hash(r, p) ==
    /\ session[r].pc = "fetching"
    /\ ~identity_verified(session[r].secure_hash, p.unique_id)
    /\ session' = [session EXCEPT ![r] =
                     Failed([@ EXCEPT !.upstream = "ok", !.unique_id = p.unique_id],
                            500, "Error streaming content: InvalidHash")]
    /\ UNCHANGED <<work_loads, multi_clients, class_cache>>

\* Lines 346-410: get_file_properties returned p, the identity check passes or
\* is skipped, and the response is planned; the caller conjoins media_streamer
\* for lines 355-410.
file_properties_return(r, p) ==
    /\ session[r].pc = "fetching"
    /\ identity_verified(session[r].secure_hash, p.unique_id)
    /\ session' = [session EXCEPT ![r] =
                     [@ EXCEPT !.pc = "responded", !.upstream = "ok",
                               !.unique_id = p.unique_id,
                               !.body = handle_in_use(session[r], class_cache),
                               !.mime_type = p.mime_type, !.file_name = p.file_name,
                               !.content_type =
                                   IF Respond(range_header, file_size).pc = "streaming"
                                   THEN ContentType(p.mime_type, p.file_name) ELSE ""]]
    /\ UNCHANGED <<work_loads, multi_clients, class_cache>>

(***************************************************************************)
(* class_cache, clean_cache and the load counters                          *)
(***************************************************************************)

\* Line 414: entries older than this many seconds are removed.
CacheTtl == 3600

\* Line 77: the cleanup task sleeps this many seconds between sweeps.
SweepPeriod == 900

\* work_loads with two clients, in either insertion order.
PoolLoads ==
    {<< <<i, a>>, <<j, b>> >> : i \in {0, 1}, j \in {0, 1}, a \in 0..MaxLoad, b \in 0..MaxLoad}
    \ {<< <<i, a>>, <<i, b>> >> : i \in {0, 1}, a \in 0..MaxLoad, b \in 0..MaxLoad}

\* work_loads[index] += d
AddLoad(wl, index, d) ==
    [k \in 1..Len(wl) |-> IF wl[k][1] = index THEN <<index, wl[k][2] + d>> ELSE wl[k]]

\* Lines 412-416.
sweep_everything(cache, t) == <<>>

swept(cache, t) ==
    [c \in {k \in DOMAIN cache : ~(t - cache[k].timestamp > CacheTtl)} |-> cache[c]]

\* The cache cleaner: whether the process has started, whether the task
\* periodic_cache_cleanup exists, and when clean_cache last ran (-1: never).
NoCleaner == [started |-> FALSE, task |-> FALSE, last |-> -1]

clean_cache ==
    /\ class_cache' = swept(class_cache, now)
    /\ cleaner' = [cleaner EXCEPT !.last = now]
    /\ UNCHANGED <<work_loads, multi_clients, session>>

\* time.time() advances by one sweep period.
Elapse ==
    /\ now + SweepPeriod <= MaxSweeps * SweepPeriod
    /\ now' = now + SweepPeriod
    /\ UNCHANGED <<token, req>>

\* Line 38: app = FastAPI() is given no lifespan argument, and nothing else
\* in the repository registers lifespan (lines 65-73) with the application.
LifespanRegistered == FALSE

\* The server starts the application: its registered lifespan runs, and with
\* it asyncio.create_task(periodic_cache_cleanup()) at line 67.
startup ==
    /\ ~cleaner.started
    /\ cleaner' = [cleaner EXCEPT !.started = TRUE, !.task = LifespanRegistered]
    /\ UNCHANGED <<class_cache, work_loads, multi_clients, session>>

\* Lines 75-79: SweepPeriod seconds pass; the task periodic_cache_cleanup, if
\* there is one, wakes from asyncio.sleep(900) and calls clean_cache.
period_passes ==
    /\ Elapse
    /\ IF cleaner.task
       THEN /\ class_cache' = swept(class_cache, now')
            /\ cleaner' = [cleaner EXCEPT !.last = now']
       ELSE UNCHANGED <<class_cache, cleaner>>
    /\ UNCHANGED <<work_loads, multi_clients, session>>

\* yield_file(file_id, index, ...): the stream of the response starts and the
\* load of its client goes up; it ends or is aborted and the load goes down.
stream_start(r) ==
    /\ session[r].pc = "responded"
    /\ session' = [session EXCEPT ![r] = [@ EXCEPT !.pc = "streaming"]]
    /\ work_loads' = AddLoad(work_loads, session[r].index, 1)
    /\ UNCHANGED <<multi_clients, class_cache>>

stream_finish(r) ==
    /\ session[r].pc = "streaming"
    /\ session' = [session EXCEPT ![r] = [@ EXCEPT !.pc = "finished"]]
    /\ work_loads' = AddLoad(work_loads, session[r].index, -1)
    /\ UNCHANGED <<multi_clients, class_cache>>

(***************************************************************************)
(* getshow_details                                                         *)
(***************************************************************************)

\* The {sid} of the path: a decimal number or some other text.
ShowIds == 1..MaxShow
SidPaths == [numeric : {TRUE}, n : 0..MaxShow] \cup {[numeric |-> FALSE, n |-> 0]}

\* A dict as the set of its <<key, value>> pairs; values are shown as text or
\* as the show id.
ErrorDict(message) == {<<"status", "error", 0>>, <<"message", message, 0>>}
ShowDict(n) == {<<"id", "", n>>, <<"sid", "", n>>, <<"bundles", "[]", 0>>}

\* get_show_details (getShowDetalis.py 10-77) over the shows collection db:
\* int(sid) raises for a non-numeric sid and the except clause returns the
\* error dict; a show that is not found gives the other error dict.
get_show_details(sid, db) ==
    IF ~sid.numeric THEN ErrorDict("Internal server error")
    ELSE IF sid.n \notin db THEN ErrorDict("Show with ID not found")
    ELSE ShowDict(sid.n)

NoReply == [pc |-> "idle", sid |-> [numeric |-> TRUE, n |-> 0], status |-> 0,
            detail |-> "", body |-> {}]

\* main.py 135-141: `if not details` is true for None or the empty dict.
getshow_details(r, sid) ==
    /\ show_reply[r].pc = "idle"
    /\ LET details == get_show_details(sid, shows)
       IN  show_reply' = [show_reply EXCEPT ![r] =
               IF details = {}
               THEN [pc |-> "done", sid |-> sid, status |-> 404,
                     detail |-> "Show not found", body |-> {}]
               ELSE [pc |-> "done", sid |-> sid, status |-> 200,
                     detail |-> "", body |-> details]]
    /\ UNCHANGED shows

(***************************************************************************)
(* message_queue and its workers (plugins/video_message.py, batch.py)      *)
(***************************************************************************)

\* video_message.py line 22.
WORKER_COUNT == 2

\* The media messages: new uploads seen by get_video, and the message a /batch
\* command names.
Uploads == {"u1", "u2"}
BatchMessages == {"b1"}
Messages == Uploads \cup BatchMessages

\* No upsert waits for a cache refresh and update_all_caches has not run.
NoRefresh == [unrefreshed |-> FALSE, outcome |-> "none"]

\* Lines 29-31 at import, before any handler ran; applied[m] is the
\* update_cache argument process_video was last called with for message m;
\* updater lists the live delayed_cache_update tasks by their position.
QueueAtImport ==
    /\ message_queue = <<>> /\ unfinished = 0
    /\ worker_tasks = <<>>
    /\ cache_update_scheduled = FALSE /\ updater = <<>>
    /\ refresh = NoRefresh
    /\ applied = [m \in Messages |-> {}]
    /\ inbox = [batch |-> "idle", todo |-> Messages]

\* A task running process_video_queue(update_cache), waiting in get().
NewWorker(update_cache) == [pc |-> "get", update_cache |-> update_cache, item |-> ""]

\* Lines 48-61: start_workers(update_cache) returns at once when worker_tasks
\* is not empty.
start_workers(tasks, update_cache) ==
    IF tasks # <<>> THEN tasks ELSE [i \in 1..WORKER_COUNT |-> NewWorker(update_cache)]

\* Lines 218-225: get_video for a new upload m; no await suspends it.
get_video(m) ==
    /\ m \in Uploads \cap inbox.todo
    /\ worker_tasks' = start_workers(worker_tasks, TRUE)
    /\ message_queue' = Append(message_queue, m)
    /\ unfinished' = unfinished + 1
    /\ inbox' = [inbox EXCEPT !.todo = @ \ {m}]
    /\ UNCHANGED <<cache_update_scheduled, updater, applied, refresh>>

\* batch.py lines 22-65: the command is validated and the workers are started.
batch_process ==
    /\ inbox.batch = "idle"
    /\ worker_tasks' = start_workers(worker_tasks, FALSE)
    /\ inbox' = [inbox EXCEPT !.batch = "running"]
    /\ UNCHANGED <<message_queue, unfinished, cache_update_scheduled, updater, applied, refresh>>

\* batch.py lines 82-88: a message of the range is fetched and queued.
batch_enqueue(m) ==
    /\ inbox.batch = "running"
    /\ m \in BatchMessages \cap inbox.todo
    /\ message_queue' = Append(message_queue, m)
    /\ unfinished' = unfinished + 1
    /\ inbox' = [inbox EXCEPT !.todo = @ \ {m}]
    /\ UNCHANGED <<worker_tasks, cache_update_scheduled, updater, applied, refresh>>

\* batch.py lines 119-133.
batch_done ==
    /\ inbox.batch = "running"
    /\ BatchMessages \cap inbox.todo = {}
    /\ inbox' = [inbox EXCEPT !.batch = "done"]
    /\ UNCHANGED <<message_queue, unfinished, worker_tasks, cache_update_scheduled,
                   updater, applied, refresh>>

Goto(w, pc) == [worker_tasks EXCEPT ![w].pc = pc]

\* Lines 195-197: get() returns the head of the queue and process_video is
\* called with the worker's update_cache.
take(w) ==
    /\ worker_tasks[w].pc = "get"
    /\ message_queue # <<>>
    /\ worker_tasks' = [worker_tasks EXCEPT ![w].pc = "work", ![w].item = Head(message_queue)]
    /\ message_queue' = Tail(message_queue)
    /\ applied' = [applied EXCEPT ![Head(message_queue)] = {worker_tasks[w].update_cache}]
    /\ UNCHANGED <<unfinished, cache_update_scheduled, updater, inbox, refresh>>

\* Lines 70-71, 152, 164: process_video returns without an upsert; the worker
\* sleeps PROCESS_DELAY.
skip(w) ==
    /\ worker_tasks[w].pc = "work"
    /\ worker_tasks' = Goto(w, "delay")
    /\ UNCHANGED <<message_queue, unfinished, cache_update_scheduled, updater, applied, inbox, refresh>>

\* Lines 169-174: the movie or show is upserted and send_info is awaited; an
\* upsert of a worker that updates caches waits for a refresh from now on.
upsert(w) ==
    /\ worker_tasks[w].pc = "work"
    /\ worker_tasks' = Goto(w, "upserted")
    /\ refresh' = [refresh EXCEPT !.unrefreshed = @ \/ worker_tasks[w].update_cache]
    /\ UNCHANGED <<message_queue, unfinished, cache_update_scheduled, updater, applied, inbox>>

\* Variant: line 179 without the test of cache_update_scheduled.
may_schedule_unchecked(update_cache, scheduled) == update_cache

\* Line 179.
may_schedule(update_cache, scheduled) == update_cache /\ ~scheduled

\* Lines 176-181: send_info returned; the flag is set and the task created
\* with no await between the test and the two statements.
schedule_update(w) ==
    /\ worker_tasks[w].pc = "upserted"
    /\ worker_tasks' = Goto(w, "delay")
    /\ IF may_schedule(worker_tasks[w].update_cache, cache_update_scheduled)
       THEN cache_update_scheduled' = TRUE /\ updater' = Append(updater, "sleep")
       ELSE UNCHANGED <<cache_update_scheduled, updater>>
    /\ UNCHANGED <<message_queue, unfinished, applied, inbox, refresh>>

\* Lines 183-184: an awaited call raised FloodWait; the worker sleeps e.value.
flood_wait(w) ==
    /\ worker_tasks[w].pc \in {"work", "upserted"}
    /\ worker_tasks' = Goto(w, "flood")
    /\ UNCHANGED <<message_queue, unfinished, cache_update_scheduled, updater, applied, inbox, refresh>>

\* Variant: the FloodWait handler without the put of line 185.
requeue_without_put(w) ==
    /\ worker_tasks[w].pc = "flood"
    /\ worker_tasks' = Goto(w, "delay")
    /\ UNCHANGED <<message_queue, unfinished, cache_update_scheduled, updater, applied, inbox, refresh>>

\* Line 185: the message is put back on the queue.
requeue(w) ==
    /\ worker_tasks[w].pc = "flood"
    /\ message_queue' = Append(message_queue, worker_tasks[w].item)
    /\ unfinished' = unfinished + 1
    /\ worker_tasks' = Goto(w, "delay")
    /\ UNCHANGED <<cache_update_scheduled, updater, applied, inbox, refresh>>

\* Lines 186-188: another exception was raised; send_error is awaited.
fail(w) ==
    /\ worker_tasks[w].pc \in {"work", "upserted"}
    /\ worker_tasks' = Goto(w, "report")
    /\ UNCHANGED <<message_queue, unfinished, cache_update_scheduled, updater, applied, inbox, refresh>>

\* send_error returned.
reported(w) ==
    /\ worker_tasks[w].pc = "report"
    /\ worker_tasks' = Goto(w, "delay")
    /\ UNCHANGED <<message_queue, unfinished, cache_update_scheduled, updater, applied, inbox, refresh>>

\* send_error raised inside the except clause: the exception leaves
\* process_video, line 200 runs task_done, and the loop of lines 194-200, which
\* has no except clause, ends with the task.
report_raises(w) ==
    /\ worker_tasks[w].pc = "report"
    /\ worker_tasks' = [worker_tasks EXCEPT ![w].pc = "dead", ![w].item = ""]
    /\ unfinished' = unfinished - 1
    /\ UNCHANGED <<message_queue, cache_update_scheduled, updater, applied, inbox, refresh>>

\* Lines 198-200: PROCESS_DELAY passed, task_done, back to get().
task_done(w) ==
    /\ worker_tasks[w].pc = "delay"
    /\ worker_tasks' = [worker_tasks EXCEPT ![w].pc = "get", ![w].item = ""]
    /\ unfinished' = unfinished - 1
    /\ UNCHANGED <<message_queue, cache_update_scheduled, updater, applied, inbox, refresh>>

\* updater without its task i.
Without(tasks, i) == [k \in 1..(Len(tasks) - 1) |-> IF k < i THEN tasks[k] ELSE tasks[k + 1]]

\* Line 207 of delayed_cache_update: CACHE_DELAY passed.
update_delay_done(i) ==
    /\ updater[i] = "sleep"
    /\ updater' = [updater EXCEPT ![i] = "join"]
    /\ UNCHANGED <<message_queue, unfinished, worker_tasks, cache_update_scheduled, applied,
                   inbox, refresh>>

\* Lines 208-211: join() returned, no item is unfinished, and update_all_caches
\* is called: a refresh begins, after every upsert made so far.
update_joined(i) ==
    /\ updater[i] = "join"
    /\ unfinished = 0
    /\ updater' = [updater EXCEPT ![i] = "updating"]
    /\ refresh' = [refresh EXCEPT !.unrefreshed = FALSE]
    /\ UNCHANGED <<message_queue, unfinished, worker_tasks, cache_update_scheduled, applied, inbox>>

\* Lines 210-213: update_all_caches returned or raised; the finally clause
\* resets the flag in both cases and the task ends.
update_ended(i, outcome) ==
    /\ updater[i] = "updating"
    /\ updater' = Without(updater, i)
    /\ cache_update_scheduled' = FALSE
    /\ refresh' = [refresh EXCEPT !.outcome = outcome]
    /\ UNCHANGED <<message_queue, unfinished, worker_tasks, applied, inbox>>

(***************************************************************************)
(* async_lru_cache (src/utils/api/search_results.py)                       *)
(***************************************************************************)

\* The capacity given to the decorator; get_cached_search_results uses 100.
maxsize == 2

\* Queries of concurrent requests and the tasks that call the wrapper.
Queries == {"q1", "q2", "q3"}
Callers == {"c1", "c2", "c3"}

\* Line 21: the key of a call is the text of its arguments.
KeyOf(query) == <<"args", query>>

\* What search_all_media returns for a query.
ResultOf(query) == [results_for |-> query]

IdleCall == [pc |-> "idle", key |-> <<>>, query |-> "", returned |-> {}]

\* Lines 16-17 when the decorator is applied at import; lru_cache is the
\* dict cache of the decorator.
SearchAtImport ==
    /\ lru_cache = <<>> /\ cache_order = <<>>
    /\ calls = [c \in Callers |-> IdleCall]

\* list.remove(key): the first occurrence leaves the list.
Position(order, key) == CHOOSE i \in DOMAIN order :
                            order[i] = key /\ \A j \in 1..(i - 1) : order[j] # key
remove(order, key) == Without(order, Position(order, key))

\* dict.pop(key, None)
pop(d, key) == [k \in DOMAIN d \ {key} |-> d[k]]

\* cache[key] = result
store(d, key, result) == [k \in DOMAIN d \cup {key} |-> IF k = key THEN result ELSE d[k]]

\* Lines 21-28: a hit moves the key to the end of cache_order and returns the
\* cached result; a miss awaits fn, which suspends the call.
wrapper(c, query) ==
    /\ calls[c].pc = "idle"
    /\ IF KeyOf(query) \in DOMAIN lru_cache
       THEN /\ cache_order' = Append(remove(cache_order, KeyOf(query)), KeyOf(query))
            /\ calls' = [calls EXCEPT ![c] = [pc |-> "idle", key |-> KeyOf(query),
                                              query |-> query,
                                              returned |-> {lru_cache[KeyOf(query)]}]]
       ELSE /\ cache_order' = cache_order
            /\ calls' = [calls EXCEPT ![c] = [pc |-> "awaiting", key |-> KeyOf(query),
                                              query |-> query, returned |-> {}]]
    /\ UNCHANGED lru_cache

\* Lines 28-36: fn returned; the result is stored, the key appended, and the
\* head of cache_order evicted when the list is longer than maxsize.
fn_return(c) ==
    /\ calls[c].pc = "awaiting"
    /\ LET key == calls[c].key
           result == ResultOf(calls[c].query)
           stored == store(lru_cache, key, result)
           order == Append(cache_order, key)
       IN  /\ IF Len(order) > maxsize
              THEN cache_order' = Tail(order) /\ lru_cache' = pop(stored, Head(order))
              ELSE cache_order' = order /\ lru_cache' = stored
           /\ calls' = [calls EXCEPT ![c] = [@ EXCEPT !.pc = "idle", !.returned = {result}]]

\* Line 28: fn raised; the exception leaves the wrapper and nothing is stored.
fn_raise(c) ==
    /\ calls[c].pc = "awaiting"
    /\ calls' = [calls EXCEPT ![c] = [@ EXCEPT !.pc = "idle"]]
    /\ UNCHANGED <<lru_cache, cache_order>>

(***************************************************************************)
(* The stored bundle hash: process_video (bundle path), migrate and the     *)
(* identity check of media_streamer                                         *)
(***************************************************************************)

\* Number of runs of the migration script.
MaxRuns == 2

\* Bundle documents, one per file_id, and the unique ids Telegram reports.
BundleIds == {"f1", "f2"}
FileUniqueIds == {"abc123xyz999", "xyz999abc123", "abc"}
Strings == FileUniqueIds \cup {"abc123", "xyz999"}

\* The string with the given characters.
Text(chars) == CHOOSE t \in Strings : Chars(t) = chars

\* A field of a document: missing, null (value {}) or a string.
Missing == [exists |-> FALSE, value |-> {}]
Field(v) == [exists |-> TRUE, value |-> v]

\* A bundle stored before hashes were introduced.
LegacyDoc == [file_unique_id |-> Missing, file_hash |-> Missing]

\* The message of a bundle at Telegram: its media, if it still has one, and
\* the media's file_unique_id (None when the attribute is missing).
Media == [present : {TRUE}, unique_id : Opt(FileUniqueIds)]
            \cup {[present |-> FALSE, unique_id |-> {}]}

NoMigration == [pc |-> "idle", bundles |-> <<>>, i |-> 1, runs |-> 0]

NoBundles ==
    /\ collection = <<>> /\ upstream = <<>>
    /\ migration = NoMigration /\ checked = <<>>

\* video_message.py lines 128-129.
ingest_hash(file_unique_id) == {Text(first_six(u)) : u \in file_unique_id}

\* Variant: the whole unique id as the hash.
migrate_hash_whole(file_unique_id) == file_unique_id

\* migrate_bundles.py line 26.
migrate_hash(file_unique_id) == Text(first_six(file_unique_id))

\* bundle_db.upsert_bundle: $set of the given fields on the document with this
\* file_id, inserted when there is none.
upsert_bundle(docs, b, file_unique_id, file_hash) ==
    [d \in DOMAIN docs \cup {b} |->
        IF d = b THEN [file_unique_id |-> file_unique_id, file_hash |-> file_hash]
        ELSE docs[d]]

\* video_message.py lines 127-145: a bundle message is ingested.
process_video_bundle(b) ==
    /\ upstream[b].present
    /\ collection' = upsert_bundle(collection, b, Field(upstream[b].unique_id),
                                   Field(ingest_hash(upstream[b].unique_id)))
    /\ checked' = [d \in DOMAIN collection' |-> IF d \in DOMAIN checked /\ d # b
                                                THEN checked[d] ELSE "none"]
    /\ UNCHANGED <<upstream, migration>>

\* The file behind a bundle's message is replaced or removed at Telegram.
upstream_replaced(b, media) ==
    /\ media # upstream[b]
    /\ upstream' = [upstream EXCEPT ![b] = media]
    /\ UNCHANGED <<collection, migration, checked>>

\* Variant: the query of line 14 without its filter.
missing_hash_any(doc) == TRUE

\* migrate_bundles.py line 14: {"file_hash": {"$exists": False}}.
missing_hash(doc) == ~doc.file_hash.exists

\* The documents of a find(), in the order of their file_id.
RECURSIVE Listed(_)
Listed(ids) ==
    IF ids = {} THEN <<>>
    ELSE LET first == CHOOSE b \in ids : \A d \in ids : b = "f1" \/ d # "f1"
         IN  <<first>> \o Listed(ids \ {first})

\* migrate_bundles.py lines 11-15: the bundles without a hash are listed.
migrate_start ==
    /\ migration.pc = "idle"
    /\ migration.runs < MaxRuns
    /\ migration' = [migration EXCEPT
                        !.pc = "running", !.i = 1,
                        !.bundles = Listed({b \in DOMAIN collection : missing_hash(collection[b])})]
    /\ UNCHANGED <<collection, upstream, checked>>

\* migrate_bundles.py lines 17-35, one turn of the loop: the message is
\* fetched; with media and a unique id the hash and the unique id are set;
\* a missing unique id raises at line 26 and the exception is printed.
migrate_bundle ==
    /\ migration.pc = "running"
    /\ migration.i <= Len(migration.bundles)
    /\ LET b == migration.bundles[migration.i]
           msg == upstream[b]
       IN  /\ IF msg.present /\ msg.unique_id # {}
              THEN collection' =
                     [collection EXCEPT ![b] =
                        [file_unique_id |-> Field(msg.unique_id),
                         file_hash |-> Field({migrate_hash(u) : u \in msg.unique_id})]]
              ELSE collection' = collection
           /\ checked' = [checked EXCEPT ![b] = IF collection' = collection THEN @ ELSE "none"]
    /\ migration' = [migration EXCEPT !.i = @ + 1]
    /\ UNCHANGED upstream

\* The loop of line 17 is over and the script ends.
migrate_end ==
    /\ migration.pc = "running"
    /\ migration.i > Len(migration.bundles)
    /\ migration' = [migration EXCEPT !.pc = "idle", !.bundles = <<>>, !.i = 1, !.runs = @ + 1]
    /\ UNCHANGED <<collection, upstream, checked>>

\* main.py line 283: bundle.get("file_hash"), None for a missing field.
bundle_secure_hash(doc) == doc.file_hash.value

\* main.py lines 269-291 and 339-351 for the bundle the lookup found: the file
\* properties are fetched and the identity check is made.
stream_bundle(b) ==
    /\ b \in DOMAIN collection
    /\ LET secure_hash == bundle_secure_hash(collection[b])
           msg == upstream[b]
           outcome ==
               IF ~msg.present \/ msg.unique_id = {} THEN "error"
               ELSE IF \A u \in msg.unique_id : identity_verified(secure_hash, u)
                    THEN "streamed" ELSE "InvalidHash"
       IN  checked' = [checked EXCEPT ![b] = outcome]
    /\ UNCHANGED <<collection, upstream, migration>>

(***************************************************************************)
(* Specifications                                                          *)
(***************************************************************************)

InitAuth ==
    /\ now = 0
    /\ token \in Tokens
    /\ req = [r \in Reqs |-> IdleReq]
    /\ file_size = 1 /\ range_header = NoRange /\ plan = NoPlan /\ sent = <<>>
    /\ work_loads = <<>> /\ multi_clients = {} /\ class_cache = <<>>
    /\ session = [r \in Reqs |-> IdleSession]
    /\ shows = {} /\ show_reply = [r \in Reqs |-> NoReply]
    /\ cleaner = NoCleaner
    /\ QueueAtImport /\ SearchAtImport /\ NoBundles

NextAuth ==
    \/ \E r \in Reqs, id \in PathIds, q \in QueryParams :
          stream_handler(r, id, q) /\ UNCHANGED <<planVars, streamVars, showVars, cleaner, ingestVars, searchVars, hashVars>>
    \/ \E r \in Reqs : catalog_return(r) /\ UNCHANGED <<planVars, streamVars, showVars, cleaner, ingestVars, searchVars, hashVars>>
    \/ \E r \in Reqs : catalog_timeout(r) /\ UNCHANGED <<planVars, showVars, cleaner, ingestVars, searchVars, hashVars>>
    \/ Tick /\ UNCHANGED <<planVars, streamVars, showVars, cleaner, ingestVars, searchVars, hashVars>>

SpecAuth == InitAuth /\ [][NextAuth]_vars

InitPlan ==
    /\ now = 0 /\ token = NoToken /\ req = [r \in Reqs |-> IdleReq]
    /\ file_size \in FileSizes
    /\ range_header \in RangeHeaders(file_size)
    /\ plan = NoPlan /\ sent = <<>>
    /\ work_loads = <<>> /\ multi_clients = {} /\ class_cache = <<>>
    /\ session = [r \in Reqs |-> IdleSession]
    /\ shows = {} /\ show_reply = [r \in Reqs |-> NoReply]
    /\ cleaner = NoCleaner
    /\ QueueAtImport /\ SearchAtImport /\ NoBundles

NextPlan ==
    \/ media_streamer /\ UNCHANGED <<authVars, streamVars, showVars, cleaner, ingestVars, searchVars, hashVars>>
    \/ yield_chunk /\ UNCHANGED <<authVars, streamVars, showVars, cleaner, ingestVars, searchVars, hashVars>>
    \/ stream_end /\ UNCHANGED <<authVars, streamVars, showVars, cleaner, ingestVars, searchVars, hashVars>>

SpecPlan == InitPlan /\ [][NextPlan]_vars

\* One request, r1, from its token to its last chunk.
StreamTokens ==
    {t \in Tokens : t.present =>
        t.payload.mediaType = {"movie"} /\ t.payload.expiry \in {{}, {0}}}

StreamSizes == {7, 20}
StreamRanges ==
    {NoRange, [kind |-> "closed", a |-> 0, b |-> 9], [kind |-> "open", a |-> 5, b |-> 0]}

UpstreamErrors == {"TimeoutError", "Exception"}

InitStream ==
    /\ now = 0
    /\ token \in StreamTokens
    /\ req = [r \in Reqs |-> IdleReq]
    /\ file_size \in StreamSizes
    /\ range_header \in StreamRanges
    /\ plan = NoPlan /\ sent = <<>>
    /\ work_loads \in WorkLoads
    /\ multi_clients \in ClientRegistries
    /\ class_cache = <<>>
    /\ session = [r \in Reqs |-> IdleSession]
    /\ shows = {} /\ show_reply = [r \in Reqs |-> NoReply]
    /\ cleaner = NoCleaner
    /\ QueueAtImport /\ SearchAtImport /\ NoBundles

NextStream ==
    \/ \E id \in PathIds, q \in QueryParams :
          stream_handler("r1", id, q) /\ UNCHANGED <<planVars, streamVars, showVars, cleaner, ingestVars, searchVars, hashVars>>
    \/ catalog_return("r1") /\ UNCHANGED <<planVars, streamVars, showVars, cleaner, ingestVars, searchVars, hashVars>>
    \/ catalog_timeout("r1") /\ UNCHANGED <<planVars, showVars, cleaner, ingestVars, searchVars, hashVars>>
    \/ select_client("r1") /\ UNCHANGED <<authVars, planVars, showVars, cleaner, ingestVars, searchVars, hashVars>>
    \/ \E err \in UpstreamErrors :
          file_properties_error("r1", err) /\ UNCHANGED <<authVars, planVars, showVars, cleaner, ingestVars, searchVars, hashVars>>
    \/ \E p \in FileProperties :
          invalid_hash("r1", p) /\ UNCHANGED <<authVars, planVars, showVars, cleaner, ingestVars, searchVars, hashVars>>
    \/ \E p \in FileProperties :
          file_properties_return("r1", p) /\ media_streamer /\ UNCHANGED <<authVars, showVars, cleaner, ingestVars, searchVars, hashVars>>
    \/ yield_chunk /\ UNCHANGED <<authVars, streamVars, showVars, cleaner, ingestVars, searchVars, hashVars>>
    \/ stream_end /\ UNCHANGED <<authVars, streamVars, showVars, cleaner, ingestVars, searchVars, hashVars>>
    \/ Tick /\ UNCHANGED <<planVars, streamVars, showVars, cleaner, ingestVars, searchVars, hashVars>>

SpecStream == InitStream /\ [][NextStream]_vars

InitShow ==
    /\ now = 0 /\ token = NoToken /\ req = [r \in Reqs |-> IdleReq]
    /\ file_size = 1 /\ range_header = NoRange /\ plan = NoPlan /\ sent = <<>>
    /\ work_loads = <<>> /\ multi_clients = {} /\ class_cache = <<>>
    /\ session = [r \in Reqs |-> IdleSession]
    /\ shows \in SUBSET ShowIds
    /\ show_reply = [r \in Reqs |-> NoReply]
    /\ cleaner = NoCleaner
    /\ QueueAtImport /\ SearchAtImport /\ NoBundles

NextShow ==
    \E r \in Reqs, sid \in SidPaths :
        getshow_details(r, sid) /\ UNCHANGED <<authVars, planVars, streamVars, cleaner, ingestVars, searchVars, hashVars>>

SpecShow == InitShow /\ [][NextShow]_vars

\* Two requests that stream_handler has resolved, the clients' ByteStreamer
\* cache, the sweep and the clock.
ResolvedReq ==
    [IdleReq EXCEPT !.pc = "streamer", !.id = "abc123", !.is_bundle = TRUE,
                    !.lookups = <<"file_hash">>, !.streamer = TRUE]

PoolToken ==
    [present |-> TRUE, signed |-> TRUE,
     payload |-> [id |-> "", fileId |-> "abc123", expiry |-> {}, mediaType |-> {"movie"},
                  qualityIndex |-> {}, seasonNumber |-> {}, episodeNumber |-> {}]]

InitPool ==
    /\ now = 0 /\ token = PoolToken /\ req = [r \in Reqs |-> ResolvedReq]
    /\ file_size = 20 /\ range_header = NoRange /\ plan = NoPlan /\ sent = <<>>
    /\ work_loads \in PoolLoads
    /\ multi_clients \in ClientRegistries
    /\ class_cache = <<>>
    /\ session = [r \in Reqs |-> IdleSession]
    /\ shows = {} /\ show_reply = [r \in Reqs |-> NoReply]
    /\ cleaner = [NoCleaner EXCEPT !.started = TRUE]
    /\ QueueAtImport /\ SearchAtImport /\ NoBundles

PoolFile == [unique_id |-> "abc123xyz999", mime_type |-> {"video/x-matroska"}, file_name |-> {}]

NextPool ==
    \/ \E r \in Reqs : select_client(r) /\ UNCHANGED <<authVars, planVars, showVars, cleaner, ingestVars, searchVars, hashVars>>
    \/ \E r \in Reqs :
          file_properties_error(r, "Exception") /\ UNCHANGED <<authVars, planVars, showVars, cleaner, ingestVars, searchVars, hashVars>>
    \/ \E r \in Reqs :
          file_properties_return(r, PoolFile) /\ UNCHANGED <<authVars, planVars, showVars, cleaner, ingestVars, searchVars, hashVars>>
    \/ \E r \in Reqs : stream_start(r) /\ UNCHANGED <<authVars, planVars, showVars, cleaner, ingestVars, searchVars, hashVars>>
    \/ \E r \in Reqs : stream_finish(r) /\ UNCHANGED <<authVars, planVars, showVars, cleaner, ingestVars, searchVars, hashVars>>
    \/ clean_cache /\ UNCHANGED <<authVars, planVars, showVars, ingestVars, searchVars, hashVars>>
    \/ Elapse /\ UNCHANGED <<planVars, streamVars, showVars, cleaner, ingestVars, searchVars, hashVars>>

SpecPool == InitPool /\ [][NextPool]_vars

\* The web process from its start: requests are served once it has started.
InitProcess ==
    /\ now = 0 /\ token = PoolToken /\ req = [r \in Reqs |-> ResolvedReq]
    /\ file_size = 20 /\ range_header = NoRange /\ plan = NoPlan /\ sent = <<>>
    /\ work_loads \in PoolLoads
    /\ multi_clients \in ClientRegistries
    /\ class_cache = <<>>
    /\ session = [r \in Reqs |-> IdleSession]
    /\ shows = {} /\ show_reply = [r \in Reqs |-> NoReply]
    /\ cleaner = NoCleaner
    /\ QueueAtImport /\ SearchAtImport /\ NoBundles

NextProcess ==
    \/ startup /\ UNCHANGED <<authVars, planVars, showVars, ingestVars, searchVars, hashVars>>
    \/ \E r \in Reqs :
          /\ cleaner.started
          /\ select_client(r) /\ UNCHANGED <<authVars, planVars, showVars, cleaner, ingestVars, searchVars, hashVars>>
    \/ \E r \in Reqs :
          file_properties_error(r, "Exception") /\ UNCHANGED <<authVars, planVars, showVars, cleaner, ingestVars, searchVars, hashVars>>
    \/ \E r \in Reqs :
          file_properties_return(r, PoolFile) /\ UNCHANGED <<authVars, planVars, showVars, cleaner, ingestVars, searchVars, hashVars>>
    \/ \E r \in Reqs : stream_start(r) /\ UNCHANGED <<authVars, planVars, showVars, cleaner, ingestVars, searchVars, hashVars>>
    \/ \E r \in Reqs : stream_finish(r) /\ UNCHANGED <<authVars, planVars, showVars, cleaner, ingestVars, searchVars, hashVars>>
    \/ period_passes /\ UNCHANGED <<planVars, showVars, ingestVars, searchVars, hashVars>>

SpecProcess == InitProcess /\ [][NextProcess]_vars

\* The bot: uploads, one /batch command, the workers and the cache updater.
InitIngest ==
    /\ now = 0 /\ token = NoToken /\ req = [r \in Reqs |-> IdleReq]
    /\ file_size = 1 /\ range_header = NoRange /\ plan = NoPlan /\ sent = <<>>
    /\ work_loads = <<>> /\ multi_clients = {} /\ class_cache = <<>>
    /\ session = [r \in Reqs |-> IdleSession]
    /\ shows = {} /\ show_reply = [r \in Reqs |-> NoReply]
    /\ cleaner = NoCleaner
    /\ QueueAtImport /\ SearchAtImport /\ NoBundles

otherVars == <<authVars, planVars, streamVars, showVars, cleaner, searchVars, hashVars>>

NextIngest ==
    \/ \E m \in Messages : get_video(m) /\ UNCHANGED otherVars
    \/ batch_process /\ UNCHANGED otherVars
    \/ \E m \in Messages : batch_enqueue(m) /\ UNCHANGED otherVars
    \/ batch_done /\ UNCHANGED otherVars
    \/ \E w \in DOMAIN worker_tasks : take(w) /\ UNCHANGED otherVars
    \/ \E w \in DOMAIN worker_tasks : skip(w) /\ UNCHANGED otherVars
    \/ \E w \in DOMAIN worker_tasks : upsert(w) /\ UNCHANGED otherVars
    \/ \E w \in DOMAIN worker_tasks : schedule_update(w) /\ UNCHANGED otherVars
    \/ \E w \in DOMAIN worker_tasks : flood_wait(w) /\ UNCHANGED otherVars
    \/ \E w \in DOMAIN worker_tasks : requeue(w) /\ UNCHANGED otherVars
    \/ \E w \in DOMAIN worker_tasks : fail(w) /\ UNCHANGED otherVars
    \/ \E w \in DOMAIN worker_tasks : reported(w) /\ UNCHANGED otherVars
    \/ \E w \in DOMAIN worker_tasks : report_raises(w) /\ UNCHANGED otherVars
    \/ \E w \in DOMAIN worker_tasks : task_done(w) /\ UNCHANGED otherVars
    \/ \E i \in DOMAIN updater : update_delay_done(i) /\ UNCHANGED otherVars
    \/ \E i \in DOMAIN updater : update_joined(i) /\ UNCHANGED otherVars
    \/ \E i \in DOMAIN updater, outcome \in {"returned", "raised"} :
          update_ended(i, outcome) /\ UNCHANGED otherVars

SpecIngest == InitIngest /\ [][NextIngest]_vars

\* The event loop runs every task that can run: a worker that is not waiting
\* on the empty queue and a delayed_cache_update task take their next step.
\* Uploads, /batch commands and exceptions are not owed.
WorkerStep(w) ==
    take(w) \/ skip(w) \/ upsert(w) \/ schedule_update(w) \/ requeue(w)
        \/ reported(w) \/ task_done(w)

UpdaterStep ==
    \E i \in DOMAIN updater :
        update_delay_done(i) \/ update_joined(i) \/ update_ended(i, "returned")

SpecIngestLive ==
    /\ SpecIngest
    /\ \A w \in 1..WORKER_COUNT : WF_ingestVars(w \in DOMAIN worker_tasks /\ WorkerStep(w))
    /\ WF_ingestVars(UpdaterStep)

\* Concurrent calls of the cached search.
InitSearch ==
    /\ now = 0 /\ token = NoToken /\ req = [r \in Reqs |-> IdleReq]
    /\ file_size = 1 /\ range_header = NoRange /\ plan = NoPlan /\ sent = <<>>
    /\ work_loads = <<>> /\ multi_clients = {} /\ class_cache = <<>>
    /\ session = [r \in Reqs |-> IdleSession]
    /\ shows = {} /\ show_reply = [r \in Reqs |-> NoReply]
    /\ cleaner = NoCleaner
    /\ QueueAtImport /\ SearchAtImport /\ NoBundles

nonSearchVars == <<authVars, planVars, streamVars, showVars, cleaner, ingestVars, hashVars>>

NextSearch ==
    \/ \E c \in Callers, query \in Queries : wrapper(c, query) /\ UNCHANGED nonSearchVars
    \/ \E c \in Callers : fn_return(c) /\ UNCHANGED nonSearchVars
    \/ \E c \in Callers : fn_raise(c) /\ UNCHANGED nonSearchVars

SpecSearch == InitSearch /\ [][NextSearch]_vars

\* Bundles stored before the hash existed, their messages at Telegram, the
\* bot ingesting bundle messages, runs of the migration and bundle streams.
InitHash ==
    /\ now = 0 /\ token = NoToken /\ req = [r \in Reqs |-> IdleReq]
    /\ file_size = 1 /\ range_header = NoRange /\ plan = NoPlan /\ sent = <<>>
    /\ work_loads = <<>> /\ multi_clients = {} /\ class_cache = <<>>
    /\ session = [r \in Reqs |-> IdleSession]
    /\ shows = {} /\ show_reply = [r \in Reqs |-> NoReply]
    /\ cleaner = NoCleaner
    /\ QueueAtImport /\ SearchAtImport
    /\ \E legacy \in SUBSET BundleIds :
          /\ collection = [b \in legacy |-> LegacyDoc]
          /\ checked = [b \in legacy |-> "none"]
    /\ upstream \in [BundleIds -> Media]
    /\ migration = NoMigration

nonHashVars == <<authVars, planVars, streamVars, showVars, cleaner, ingestVars, searchVars>>

NextHash ==
    \/ \E b \in BundleIds : process_video_bundle(b) /\ UNCHANGED nonHashVars
    \/ \E b \in BundleIds, media \in Media : upstream_replaced(b, media) /\ UNCHANGED nonHashVars
    \/ migrate_start /\ UNCHANGED nonHashVars
    \/ migrate_bundle /\ UNCHANGED nonHashVars
    \/ migrate_end /\ UNCHANGED nonHashVars
    \/ \E b \in BundleIds : stream_bundle(b) /\ UNCHANGED nonHashVars

SpecHash == InitHash /\ [][NextHash]_vars

(***************************************************************************)
(* Claims about stream_handler (SpecAuth)                                  *)
(***************************************************************************)

Handled(r) == req[r].pc # "idle"

\* The request got past the authorization block (lines 229-261).
PastAuthorization(r) == Handled(r) /\ req[r].status # 401

\* No bundle or catalog lookup was made and media_streamer (connection
\* selection, upstream fetches) was not entered.
NothingLookedUp(r) ==
    req[r].lookups = <<>> /\ ~req[r].streamer /\ req[r].file = NoFile

ExpiredAt(tok, t) == \E e \in tok.payload.expiry : e < t

\* C1: a request gets past authorization only if its path id equals the
\* token's fileId (bundle override, whatever the token's content id) or the
\* token's content id; a request for any other id ends with 401 and nothing
\* is looked up or streamed for it.
C1_OnlyBoundIdsAuthorized ==
    \A r \in Reqs : Handled(r) =>
        /\ PastAuthorization(r) =>
              /\ token.present
              /\ req[r].id \in {token.payload.fileId, token.payload.id}
              /\ req[r].is_bundle <=> (req[r].id = token.payload.fileId)
        /\ (token.present /\ req[r].id \notin {token.payload.fileId, token.payload.id}) =>
              req[r].status = 401 /\ NothingLookedUp(r)

\* One token with fileId F1 and content id C1: the request for F1 is
\* authorized as a bundle, the request for C2 is rejected.
C1_Witness ==
    /\ token.present /\ token.payload.fileId = "F1" /\ token.payload.id = "C1"
    /\ req["r1"].id = "F1" /\ req["r1"].is_bundle /\ req["r1"].streamer
    /\ req["r2"].id = "C2" /\ req["r2"].status = 401
    /\ req["r2"].detail = "Token ID mismatch"

\* C2: a request with no token, a token whose signature does not verify or a
\* token whose expiry lies before the time of the request ends with 401 before
\* any lookup; no token that verify_stream_token accepts has an expiry in the
\* past.
C2_BadTokenRejected ==
    \A r \in Reqs : Handled(r) =>
        /\ (~token.present \/ ~token.signed \/ ExpiredAt(token, req[r].at)) =>
              req[r].status = 401 /\ NothingLookedUp(r)
        /\ (token.present /\ verify_stream_token(token, req[r].at).ok) =>
              token.signed /\ ~ExpiredAt(token, req[r].at)
        /\ PastAuthorization(r) =>
              token.present /\ verify_stream_token(token, req[r].at).ok

\* A correctly signed token whose expiry has passed is rejected.
C2_Witness ==
    \E r \in Reqs :
        /\ Handled(r) /\ token.present /\ token.signed
        /\ ExpiredAt(token, req[r].at)
        /\ req[r].status = 401 /\ req[r].detail = "Token has expired"

\* C3: a non-bundle request is resolved with the media type, quality index,
\* season and episode of the token, so two requests with one token and one id
\* resolve the same file whatever their query parameters.
C3_TokenSelectionWins ==
    /\ \A r \in Reqs : (PastAuthorization(r) /\ ~req[r].is_bundle) =>
          /\ req[r].selection = token_selection(token.payload)
          /\ req[r].pc = "streamer" =>
                req[r].file = get_video_details(req[r].id, token_selection(token.payload))
    /\ \A r1, r2 \in Reqs :
          (/\ req[r1].pc = "streamer" /\ req[r2].pc = "streamer"
           /\ ~req[r1].is_bundle /\ ~req[r2].is_bundle
           /\ req[r1].id = req[r2].id) => req[r1].file = req[r2].file

\* Two non-bundle requests for one id with different query parameters, neither
\* equal to the token's selection, both resolved.
C3_Witness ==
    /\ req["r1"].pc = "streamer" /\ req["r2"].pc = "streamer"
    /\ ~req["r1"].is_bundle /\ ~req["r2"].is_bundle
    /\ req["r1"].id = req["r2"].id
    /\ req["r1"].query # req["r2"].query
    /\ req["r1"].query # token_selection(token.payload)
    /\ req["r1"].file = req["r2"].file

(***************************************************************************)
(* Claims about media_streamer (SpecPlan)                                  *)
(***************************************************************************)

Responded == plan.pc # "idle"

\* The window the request names, before any clamping.
ReqFrom == ParsedFrom(range_header, file_size)
ReqUntil == ParsedUntil(range_header, file_size)

\* 0 <= fromByte <= untilByte <= totalSize-1.
ValidWindow(from, until, size) == 0 <= from /\ from <= until /\ until <= size - 1

\* The windows the range test is to refuse: untilByte > totalSize-1,
\* fromByte < 0 or untilByte < fromByte.
WindowOutOfRange(from, until, size) ==
    (until > size - 1) \/ (from < 0) \/ (until < from)

\* A chunk plan was computed and a 200 or 206 response built from it.
HasPlan == Responded /\ plan.status_code \in {200, 206}

\* The number of bytes of the chunks yielded so far.
RECURSIVE TotalLength(_)
TotalLength(segs) ==
    IF segs = <<>> THEN 0
    ELSE (Head(segs)[2] - Head(segs)[1]) + TotalLength(Tail(segs))

\* The chunks, in order, are exactly the file bytes lo..hi-1.
RECURSIVE IsExactly(_, _, _)
IsExactly(segs, lo, hi) ==
    IF segs = <<>> THEN lo = hi
    ELSE IF Head(segs)[1] = Head(segs)[2] THEN IsExactly(Tail(segs), lo, hi)
    ELSE Head(segs)[1] = lo /\ Head(segs)[2] <= hi /\ IsExactly(Tail(segs), Head(segs)[2], hi)

\* C4: a window with untilByte > totalSize-1, fromByte < 0 or
\* untilByte < fromByte is answered 416 with Content-Range bytes */totalSize
\* and no chunk is fetched.
C4_OutOfRangeIs416 ==
    (Responded /\ WindowOutOfRange(ReqFrom, ReqUntil, file_size)) =>
        /\ plan.status_code = 416
        /\ plan.content_range.unsatisfied /\ plan.content_range.total = file_size
        /\ plan.part_count = 0 /\ sent = <<>>

\* C5: a 200 or 206 response carries a window 0 <= from <= until <= size-1
\* and a Content-Length of at least 1; a requested window outside that range
\* ends in 416.
C5_ResponseWindowValid ==
    /\ HasPlan =>
          /\ ValidWindow(plan.content_range.from, plan.content_range.until, file_size)
          /\ plan.req_length >= 1
    /\ (Responded /\ ~ValidWindow(ReqFrom, ReqUntil, file_size)) => plan.status_code = 416

\* C6: for a file of at least one byte planning ends in a 200/206 plan with a
\* chunk size of at least 1 or in a 416, never in a 500.
C6_PlanningNeverFaults ==
    (Responded /\ file_size >= 1) =>
        /\ plan.status_code \in {200, 206, 416}
        /\ HasPlan => plan.chunk_size >= 1

\* C7: for a valid window the aligned offset is a multiple of the chunk size
\* and at most fromByte, and the first-chunk trim, fromByte minus the aligned
\* offset, is less than the chunk size.
C7_AlignedOffset ==
    (Responded /\ ValidWindow(ReqFrom, ReqUntil, file_size)) =>
        /\ \E k \in 0..ReqFrom : plan.offset = k * plan.chunk_size
        /\ plan.offset <= ReqFrom
        /\ plan.first_part_cut = ReqFrom - plan.offset
        /\ plan.first_part_cut < plan.chunk_size

\* C8: for a valid window that was planned, first-chunk trim plus requested
\* length is at most chunk count times chunk size.
C8_ChunksCoverWindow ==
    (HasPlan /\ ValidWindow(ReqFrom, ReqUntil, file_size)) =>
        /\ plan.part_count =
              CeilDiv(plan.until_bytes, plan.chunk_size) - FloorDiv(plan.offset, plan.chunk_size)
        /\ plan.first_part_cut + plan.req_length <= plan.part_count * plan.chunk_size

\* C9: the stream of a request without Range header is the whole file:
\* totalSize bytes, in order.
C9_FullFileRoundTrip ==
    (plan.pc = "done" /\ plan.status_code = 200 /\ range_header.kind = "none") =>
        /\ TotalLength(sent) = file_size
        /\ IsExactly(sent, 0, file_size)

\* C10: for a valid window the stream has requestedLength bytes, the value of
\* Content-Length, and they are the file bytes fromByte..untilByte.
C10_StreamIsWindow ==
    (plan.pc = "done" /\ HasPlan /\ ValidWindow(ReqFrom, ReqUntil, file_size)) =>
        /\ plan.req_length = ReqUntil - ReqFrom + 1
        /\ TotalLength(sent) = plan.req_length
        /\ IsExactly(sent, ReqFrom, ReqUntil + 1)

\* C11: for a valid window the plan is the one of the reference formulas:
\* chunk size min(1 MiB, size div 10), aligned offset from - (from mod cs),
\* first trim from - aligned offset, last trim (until mod cs) + 1, chunk count
\* ceil(until / cs) - floor(aligned offset / cs); a file of 10,000,000 bytes
\* and the window 1,500,000..2,500,000 give chunk size 1,000,000 and the plan
\* 1,000,000 / 500,000 / 500,001 / 2.
C11_PlanMatchesReference ==
    (HasPlan /\ ValidWindow(ReqFrom, ReqUntil, file_size)) =>
        LET cs == plan.chunk_size
            aligned == ReqFrom - (ReqFrom % cs)
        IN  /\ cs = (IF file_size \div 10 < FixedCap THEN file_size \div 10 ELSE FixedCap)
            /\ plan.offset = aligned
            /\ plan.first_part_cut = ReqFrom - aligned
            /\ plan.last_part_cut = (ReqUntil % cs) + 1
            /\ plan.part_count = ((ReqUntil + cs - 1) \div cs) - (aligned \div cs)
            /\ plan.req_length = ReqUntil - ReqFrom + 1
            /\ (file_size = 10000000 /\ ReqFrom = 1500000 /\ ReqUntil = 2500000) =>
                  /\ cs = 1000000
                  /\ plan.offset = 1000000
                  /\ plan.first_part_cut = 500000
                  /\ plan.last_part_cut = 500001
                  /\ plan.part_count = 2

\* The example window was planned.
C11_Witness ==
    /\ HasPlan /\ file_size = 10000000
    /\ range_header = [kind |-> "closed", a |-> 1500000, b |-> 2500000]
    /\ plan.part_count = 2 /\ plan.status_code = 206

C17_BundleLookupOrder ==
    \A r \in Reqs : (PastAuthorization(r) /\ req[r].is_bundle) =>
        LET by_hash == {b \in BundleCollection : b.file_hash = {req[r].id}}
            by_id == {b \in BundleCollection : b.file_id = req[r].id}
        IN  /\ req[r].lookups # <<>> /\ req[r].lookups[1] = "file_hash"
            /\ by_hash # {} => req[r].lookups = <<"file_hash">>
            /\ by_hash = {} => req[r].lookups = <<"file_hash", "file_id">>
            /\ (by_hash # {} \/ by_id # {}) => req[r].pc = "streamer" /\ req[r].status = 0
            /\ (by_hash = {} /\ by_id = {}) =>
                  /\ req[r].pc = "done" /\ req[r].status = 404
                  /\ ~req[r].streamer

\* A bundle request whose id is neither a stored hash nor a stored file id.
C17_Witness ==
    \E r \in Reqs :
        /\ PastAuthorization(r) /\ req[r].is_bundle
        /\ req[r].lookups = <<"file_hash", "file_id">>
        /\ req[r].status = 404 /\ ~req[r].streamer

\* C18: the requests rejected for an expired token, for a bad signature and
\* for an id mismatch get the same status and the same detail.
C18_RejectionsIndistinguishable ==
    \A r1, r2 \in Reqs :
        (token.present /\ req[r1].status = 401 /\ req[r2].status = 401) =>
            req[r1].detail = req[r2].detail

(***************************************************************************)
(* Claims about one stream request (SpecStream)                            *)
(***************************************************************************)

\* The status the client of request r gets, 0 while none is decided.
FinalStatus(r) ==
    IF req[r].status # 0 THEN req[r].status
    ELSE IF session[r].status # 0 THEN session[r].status
    ELSE plan.status_code

\* The stored hash h and the fetched unique id u agree on the first six
\* characters of u.
PrefixMatches(h, u) ==
    /\ Len(Chars(h)) = 6 /\ Len(Chars(u)) >= 6
    /\ \A i \in 1..6 : Chars(u)[i] = Chars(h)[i]

\* C12: a response is planned or a chunk sent only if no hash is stored for
\* the reference or the first six characters of the fetched unique id equal
\* it; on a mismatch the request ends in an error with nothing planned and no
\* chunk fetched; without a stored hash the fetched file is always planned.
\* Stored "abc123": unique id "abc123xyz999" passes, "xyz999abc123" does not.
C12_StreamOnlyVerified ==
    LET s == session["r1"]
    IN  /\ (plan.pc # "idle" \/ sent # <<>>) =>
              /\ s.upstream = "ok"
              /\ s.secure_hash = {} \/ \E h \in s.secure_hash : PrefixMatches(h, s.unique_id)
        /\ (s.upstream = "ok" /\ \E h \in s.secure_hash : ~PrefixMatches(h, s.unique_id)) =>
              /\ s.pc = "done" /\ s.status >= 400
              /\ plan = NoPlan /\ sent = <<>>
        /\ (s.upstream = "ok" /\ s.secure_hash = {}) =>
              s.pc = "responded" /\ plan.pc # "idle"
        /\ (s.upstream = "ok" /\ s.secure_hash = {"abc123"}) =>
              /\ s.unique_id = "abc123xyz999" => s.pc = "responded"
              /\ s.unique_id = "xyz999abc123" => s.pc = "done" /\ s.status >= 400

\* The hashed bundle is requested and the fetched file has another unique id.
C12_Witness ==
    /\ session["r1"].secure_hash = {"abc123"}
    /\ session["r1"].unique_id = "xyz999abc123"
    /\ session["r1"].status = 500 /\ plan = NoPlan /\ sent = <<>>

\* C13: with an empty load map a request that reaches the connection
\* selection is answered 503.
C13_NoCapacityIs503 ==
    \A r \in Reqs :
        (work_loads = <<>> /\ session[r].pc # "idle") => FinalStatus(r) = 503

\* C14: a request one of whose upstream calls (reference resolution, file
\* properties) timed out is answered 503.
C14_TimeoutIs503 ==
    \A r \in Reqs :
        session[r].upstream = "TimeoutError" => FinalStatus(r) = 503

\* C16: the Content-Type of a 200 or 206 response is the explicit mime type if
\* there is one, else the type guessed from the file name if there is one,
\* else application/octet-stream.
C16_ContentTypeFallback ==
    LET s == session["r1"]
        guessed == UNION {guess_type(n) : n \in s.file_name}
    IN  (s.pc = "responded" /\ plan.status_code \in {200, 206}) =>
            /\ s.mime_type # {} => s.content_type \in s.mime_type
            /\ (s.mime_type = {} /\ guessed # {}) => s.content_type \in guessed
            /\ (s.mime_type = {} /\ guessed = {}) => s.content_type = "application/octet-stream"

\* C20: the stages of a request run in order, each only after the one before
\* succeeded: resolution after a valid token, connection selection and the
\* file-property fetch after resolution, planning after a passed or skipped
\* identity check, chunks after a 200 or 206 plan; a failed stage leaves every
\* later stage untouched.
C20_StagesInOrder ==
    LET r == req["r1"]
        s == session["r1"]
    IN  /\ (r.lookups # <<>> \/ r.pc \in {"catalog", "streamer"}) =>
              /\ token.present /\ verify_stream_token(token, r.at).ok
              /\ r.id \in {token.payload.id, token.payload.fileId}
        /\ s.pc # "idle" =>
              /\ r.pc = "streamer" /\ r.status = 0
              /\ r.is_bundle => \E b \in BundleCollection : r.id = b.file_id \/ {r.id} = b.file_hash
              /\ ~r.is_bundle => r.file # NoFile
        /\ plan.pc # "idle" =>
              /\ s.pc = "responded" /\ s.status = 0 /\ s.upstream = "ok"
              /\ s.secure_hash = {} \/ \E h \in s.secure_hash : PrefixMatches(h, s.unique_id)
        /\ sent # <<>> => plan.pc \in {"streaming", "done"} /\ plan.status_code \in {200, 206}
        /\ r.status # 0 => r.pc = "done" /\ s.pc = "idle" /\ plan = NoPlan /\ sent = <<>>
        /\ s.status # 0 => s.pc = "done" /\ plan = NoPlan /\ sent = <<>>
        /\ plan.status_code \in {416, 500} => plan.pc = "done" /\ sent = <<>>

\* A request that went through every stage and sent its last chunk.
C20_Witness ==
    /\ req["r1"].pc = "streamer" /\ ~req["r1"].is_bundle
    /\ session["r1"].pc = "responded" /\ session["r1"].secure_hash # {}
    /\ plan.pc = "done" /\ plan.status_code = 206 /\ Len(sent) >= 2

(***************************************************************************)
(* Claims about getshow_details (SpecShow)                                 *)
(***************************************************************************)

\* C19: a request for a show id that no show of the catalog has is answered
\* 404 'Show not found', never 200.
C19_MissingShowIs404 ==
    \A r \in Reqs :
        (/\ show_reply[r].pc = "done"
         /\ show_reply[r].sid.numeric
         /\ show_reply[r].sid.n \notin shows) =>
            show_reply[r].status = 404 /\ show_reply[r].detail = "Show not found"

(***************************************************************************)
(* Claims about the client selection and the handle cache (SpecPool)       *)
(***************************************************************************)

\* Request r enters media_streamer in this step.
Selects(r) == session[r].pc = "idle" /\ session'[r].pc # "idle"

\* C21: the selected identity is registered in the load map, no identity has
\* a smaller load, and no identity earlier in the map's order has the same
\* load; so a load map determines the selection.
C21_SelectsFirstMinimal ==
    [][\A r \in Reqs : Selects(r) =>
          \E k \in 1..Len(work_loads) :
              /\ work_loads[k][1] = session'[r].index
              /\ \A j \in 1..Len(work_loads) : work_loads[k][2] <= work_loads[j][2]
              /\ \A j \in 1..Len(work_loads) :
                    work_loads[j][2] = work_loads[k][2] => k <= j]_vars

\* Equal loads with client 1 first in the map: client 1 is selected.
C21_Witness ==
    /\ work_loads = << <<1, 1>>, <<0, 1>> >>
    /\ session["r1"].pc = "fetching" /\ session["r1"].index = 1
    /\ session["r2"].pc = "idle"

\* C22: when the selected identity has no client in the registry the request
\* ends with 503 'Streaming client configuration error', and no ByteStreamer
\* is constructed or cached for it.
C22_MissingClientIsConfigurationError ==
    \A r \in Reqs :
        (session[r].index >= 0 /\ session[r].index \notin multi_clients) =>
            /\ session[r].status = 503
            /\ session[r].detail = "Streaming client configuration error"
            /\ ~session[r].constructed
            /\ session[r].index \notin DOMAIN class_cache

\* C23: a request that acquires a ByteStreamer, from the cache or newly
\* constructed, leaves the identity's cache entry with the current time as
\* its timestamp.
C23_AcquireRefreshesTimestamp ==
    [][\A r \in Reqs : (Selects(r) /\ session'[r].pc = "fetching") =>
          /\ session'[r].index \in DOMAIN class_cache'
          /\ class_cache'[session'[r].index].timestamp = now]_vars

\* C24: a run of clean_cache leaves no entry older than CacheTtl seconds,
\* keeps every other entry with its ByteStreamer and timestamp, adds none, and
\* leaves the load map and the client registry as they were.
C24_SweepFrame ==
    [][cleaner'.last # cleaner.last =>
          /\ \A c \in DOMAIN class_cache' : now - class_cache'[c].timestamp <= CacheTtl
          /\ \A c \in DOMAIN class_cache :
                now - class_cache[c].timestamp <= CacheTtl =>
                    c \in DOMAIN class_cache' /\ class_cache'[c] = class_cache[c]
          /\ DOMAIN class_cache' \subseteq DOMAIN class_cache
          /\ work_loads' = work_loads /\ multi_clients' = multi_clients]_vars

\* A sweep has just kept an entry exactly CacheTtl seconds old and removed the
\* older entry of the other client.
C24_Witness ==
    /\ cleaner.last = now
    /\ \E c \in DOMAIN class_cache : now - class_cache[c].timestamp = CacheTtl
    /\ \E r \in Reqs : session[r].constructed /\ session[r].index \notin DOMAIN class_cache

InFlight == {"fetching", "responded", "streaming"}

\* C26: a request streams with the ByteStreamer it acquired, whatever happens
\* to the cache entry meanwhile: a sweep changes no request, an acquired
\* ByteStreamer is never exchanged, and the body of the response is produced
\* by it; a ByteStreamer other than the cached one is only ever a newly
\* constructed one.
C26_InFlightKeepsHandle ==
    /\ [](\A r \in Reqs :
            /\ session[r].pc \in {"responded", "streaming", "finished"} =>
                  session[r].handle # "" /\ session[r].body = session[r].handle
            /\ session[r].handle # "" => (session[r].constructed <=> session[r].handle = r))
    /\ [][\A r \in Reqs :
            /\ session[r].handle # "" => session'[r].handle = session[r].handle
            /\ cleaner'.last # cleaner.last => session'[r] = session[r]]_vars

\* r1 still streams with the ByteStreamer it constructed although the entry of
\* its client now holds the one r2 constructed after a sweep.
C26_Witness ==
    /\ session["r1"].pc = "streaming" /\ session["r1"].body = "r1"
    /\ session["r2"].constructed /\ session["r2"].index = session["r1"].index
    /\ class_cache[session["r1"].index].object = "r2"

\* C27: the load counter of an identity is at least the number of requests
\* in flight on it (it equals that number plus the requests counted before).
C27_LoadCountsInFlight ==
    \A k \in 1..Len(work_loads) :
        work_loads[k][2] >=
            Cardinality({r \in Reqs : session[r].pc \in InFlight
                                      /\ session[r].index = work_loads[k][1]})

\* C28: a request constructs a ByteStreamer only when the cache has no entry
\* for its client, and then the entry holds that ByteStreamer; when there is
\* an entry the request takes its ByteStreamer and leaves the entry as it is.
C28_OneHandlePerEntry ==
    [][\A r \in Reqs : (Selects(r) /\ session'[r].pc = "fetching") =>
          LET i == session'[r].index
          IN  /\ i \in DOMAIN class_cache =>
                    /\ ~session'[r].constructed
                    /\ session'[r].handle = class_cache[i].object
                    /\ class_cache'[i] = class_cache[i]
              /\ i \notin DOMAIN class_cache =>
                    /\ session'[r].constructed /\ session'[r].handle = r
                    /\ i \in DOMAIN class_cache' /\ class_cache'[i].object = r]_vars

\* Two requests suspended at the file-property fetch share one ByteStreamer.
C28_Witness ==
    /\ session["r1"].pc = "fetching" /\ session["r2"].pc = "fetching"
    /\ session["r1"].index = session["r2"].index
    /\ session["r1"].constructed /\ ~session["r2"].constructed
    /\ session["r2"].handle = "r1"

(***************************************************************************)
(* Claims about the web process (SpecProcess)                              *)
(***************************************************************************)

\* C25: the sweep runs every SweepPeriod seconds from the start of the
\* process, so the cache never holds an entry that has been idle for more
\* than CacheTtl seconds plus one period.
C25_IdleEntriesSwept ==
    \A c \in DOMAIN class_cache :
        now - class_cache[c].timestamp <= CacheTtl + SweepPeriod

(***************************************************************************)
(* Claims about the message queue and its workers (SpecIngest)             *)
(***************************************************************************)

\* C29: a message queued by /batch is processed with update_cache = False and
\* a new upload queued by get_video with update_cache = True, whichever
\* handler started the workers.
C29_UpdateCacheFollowsHandler ==
    \A m \in Messages :
        /\ (m \in BatchMessages /\ applied[m] # {}) => applied[m] = {FALSE}
        /\ (m \in Uploads /\ applied[m] # {}) => applied[m] = {TRUE}

\* C30: once the workers are started there are WORKER_COUNT of them, never
\* more, and every one of them is alive.
C30_WorkersStayAlive ==
    worker_tasks # <<>> =>
        /\ Len(worker_tasks) = WORKER_COUNT
        /\ \A w \in DOMAIN worker_tasks : worker_tasks[w].pc # "dead"

(***************************************************************************)
(* Queue accounting (SpecIngest)                                           *)
(***************************************************************************)

Holding == {w \in DOMAIN worker_tasks : worker_tasks[w].item # ""}

\* The step in which worker w gives up the item it took.
Releasing(w) == worker_tasks[w].item # "" /\ worker_tasks'[w].item = ""

Accounting == unfinished = Len(message_queue) + Cardinality(Holding)

TaskDoneOnce ==
    /\ (\E w \in DOMAIN worker_tasks : Releasing(w)) => unfinished' = unfinished - 1
    /\ unfinished' < unfinished =>
           Cardinality({w \in DOMAIN worker_tasks : Releasing(w)}) = 1

FloodNotLost ==
    \A w \in DOMAIN worker_tasks :
        (worker_tasks[w].pc = "flood" /\ worker_tasks'[w].pc # "flood") =>
            \E i \in DOMAIN message_queue' : message_queue'[i] = worker_tasks[w].item

\* C31: every item a worker took is given up with exactly one task_done, also
\* after an exception or a FloodWait; the item of a FloodWait is back on the
\* queue when its handler ends; the unfinished count is always the number of
\* queued items plus the number of items workers hold, so join() returns
\* exactly when nothing is queued or held.
C31_QueueAccounting ==
    /\ [](Accounting /\ unfinished >= 0)
    /\ [][TaskDoneOnce /\ FloodNotLost]_vars

\* A worker put its item back after a FloodWait and has not yet called
\* task_done, while another worker ended on an exception.
C31_Witness ==
    \E w, v \in DOMAIN worker_tasks :
        /\ worker_tasks[w].pc = "delay"
        /\ \E i \in DOMAIN message_queue : message_queue[i] = worker_tasks[w].item
        /\ worker_tasks[v].pc = "dead"

(***************************************************************************)
(* The delayed cache update (SpecIngest, SpecIngestLive)                   *)
(***************************************************************************)

\* C32: at most one delayed_cache_update task is pending or running, and
\* cache_update_scheduled is True exactly while there is one, also after
\* update_all_caches raised.
C32_OneCacheUpdate ==
    /\ Len(updater) <= 1
    /\ cache_update_scheduled <=> updater # <<>>

\* update_all_caches raised, the flag is down again, and a second update has
\* been scheduled while another worker is past its upsert.
C32_Witness ==
    /\ refresh.outcome = "raised"
    /\ cache_update_scheduled /\ Len(updater) = 1
    /\ \E w \in DOMAIN worker_tasks :
          worker_tasks[w].pc = "upserted" /\ worker_tasks[w].update_cache

Drained == unfinished = 0

\* C33: in a run in which the queue drains again and again, every upsert of a
\* worker that updates caches is followed by the start of a refresh.
C33_UpsertLeadsToRefresh ==
    ([]<>Drained) => (refresh.unrefreshed ~> ~refresh.unrefreshed)

(***************************************************************************)
(* The cache of search results (SpecSearch)                                *)
(***************************************************************************)

CachedKeys == DOMAIN lru_cache
ListedKeys == {cache_order[i] : i \in DOMAIN cache_order}

\* C34: whatever the interleaving of the calls, the cache holds at most
\* maxsize entries and cache_order lists exactly the cached keys, each once.
C34_OrderListsCachedKeys ==
    /\ Cardinality(CachedKeys) <= maxsize
    /\ ListedKeys = CachedKeys
    /\ Len(cache_order) = Cardinality(CachedKeys)

(***************************************************************************)
(* The stored bundle hash (SpecHash)                                       *)
(***************************************************************************)

\* The file at Telegram is the one whose unique id the document stores.
Unchanged(b) ==
    /\ upstream[b].present
    /\ upstream[b].unique_id # {}
    /\ collection[b].file_unique_id.value = upstream[b].unique_id

HashIsPrefix ==
    \A b \in DOMAIN collection : \A h \in collection[b].file_hash.value :
        \E u \in collection[b].file_unique_id.value :
            /\ Len(Chars(h)) = Min(6, Len(Chars(u)))
            /\ \A i \in 1..Len(Chars(h)) : Chars(h)[i] = Chars(u)[i]

RoundTrip ==
    \A b \in DOMAIN collection :
        Unchanged(b) =>
            \A u \in upstream[b].unique_id :
                identity_verified(bundle_secure_hash(collection[b]), u)

StreamPasses ==
    \A b \in DOMAIN collection :
        (Unchanged(b) /\ checked'[b] # checked[b] /\ checked'[b] # "none") =>
            checked'[b] = "streamed"

SnapshotOf(run) == {run.bundles[i] : i \in DOMAIN run.bundles}

KeepsHashed ==
    /\ (migration.pc = "idle" /\ migration'.pc = "running") =>
           \A b \in SnapshotOf(migration') : ~collection[b].file_hash.exists
    /\ migration' # migration =>
           \A b \in DOMAIN collection :
               collection'[b] # collection[b] => b \in SnapshotOf(migration)

\* C35: a stored hash is the first 6 characters of the stored unique id, for
\* ingestion and migration alike; a bundle whose file still has the stored
\* unique id passes the identity check of the stream; a run of the migration
\* lists only bundles without a file_hash field and changes no other bundle.
C35_HashRoundTrip ==
    /\ [](HashIsPrefix /\ RoundTrip)
    /\ [][StreamPasses /\ KeepsHashed]_vars

\* During a second run of the migration a bundle with a stored hash, whose
\* file is unchanged, has been streamed, while another bundle is listed for
\* the run.
C35_Witness ==
    /\ migration.runs >= 1 /\ migration.pc = "running"
    /\ migration.bundles # <<>>
    /\ \E b \in DOMAIN collection :
          /\ collection[b].file_hash.value # {}
          /\ Unchanged(b)
          /\ checked[b] = "streamed"
          /\ b \notin SnapshotOf(migration)

====
